---- MODULE Spec2Model ----
(***************************************************************************)
(* Advertisements API (src/main.py, src/models.py): five HTTP handlers     *)
(* over one relational table, each handler working through its own         *)
(* SQLAlchemy session.                                                     *)
(*                                                                         *)
(* Values.  A Python attribute that may be None is modelled as a sequence  *)
(* of length at most one: None is << >> and the value v is <<v>>.  Text is *)
(* a sequence of characters, so the text "Ab" held by an attribute is      *)
(* << <<"A", "b">> >>.  A price is an integer.                             *)
(***************************************************************************)
EXTENDS Integers, Sequences, FiniteSets, TLC

\* Number of advertisements that may ever be created in one behaviour.
MaxAds == 2

None == << >>
Some(v) == <<v>>

\* The four caller-settable attributes (main.py 14-24).
Fields == {"title", "description", "price", "author"}

Ids == 1..MaxAds

\* Request data used by the model.
Titles == {<<"A", "b">>, <<"b">>}
Descriptions == {<<"a">>}
Authors == {<<"x">>, <<"X">>}
Prices == {-1, 0, 1}

\* The values PATCH bodies supply.
PatchTitles == {<<"b">>}
PatchAuthors == {<<"X">>}
PatchPrices == {-1, 0}

Opt(S) == {None} \cup {Some(v) : v \in S}

(***************************************************************************)
(* Request bodies.  A parsed body is a pydantic model: every declared      *)
(* field has a value (None when the key is absent from the JSON) and       *)
(* fields_set records which keys the JSON supplied.                        *)
(***************************************************************************)
Bodies(T, D, P, A) ==
    {b \in [title : Opt(T), description : Opt(D), price : Opt(P), author : Opt(A),
            fields_set : SUBSET Fields] :
        \A k \in Fields \ b.fields_set : b[k] = None}

\* a creation model without ge=0
AdvertisementCreate_NoGe(b) ==
    /\ b.fields_set = Fields
    /\ \A k \in Fields : b[k] # None

\* AdvertisementCreate: all four fields required (Field(...)), none Optional,
\* price ge=0.
AdvertisementCreate(b) ==
    /\ b.fields_set = Fields
    /\ \A k \in Fields : b[k] # None
    /\ b.price[1] >= 0

\* an update model without ge=0
AdvertisementUpdate_NoGe(b) == TRUE

\* AdvertisementUpdate: every field Optional with default None; ge=0 applies
\* to a price that is not None.
AdvertisementUpdate(b) ==
    b.price # None => b.price[1] >= 0

\* POST bodies: every complete body without null, and the bodies that differ
\* from BaseBody by a single missing key or a single null.
BaseBody ==
    [title |-> Some(<<"A", "b">>), description |-> Some(<<"a">>), price |-> Some(1),
     author |-> Some(<<"x">>), fields_set |-> Fields]

CreateBodies ==
    {b \in Bodies(Titles, Descriptions, Prices, Authors) :
        b.fields_set = Fields /\ \A k \in Fields : b[k] # None}
    \cup {[BaseBody EXCEPT ![k] = None] : k \in Fields}
    \cup {[BaseBody EXCEPT ![k] = None, !.fields_set = Fields \ {k}] : k \in Fields}

\* PATCH bodies: at most two keys, each with null or a value, and the complete
\* bodies without null.
UpdateBodies ==
    {b \in Bodies(PatchTitles, Descriptions, PatchPrices, PatchAuthors) :
        \/ Cardinality(b.fields_set) <= 2
        \/ b.fields_set = Fields /\ \A k \in Fields : b[k] # None}

\* ad_update.dict(exclude_unset=True)
ExcludeUnset(b) == [k \in b.fields_set |-> b[k]]

(***************************************************************************)
(* The table.  title, description, price and author are NOT NULL: their    *)
(* annotations (MappedColumn[str], MappedColumn[float]) are not Optional   *)
(* and nullable is not passed to mapped_column.                            *)
(***************************************************************************)
NullableColumns == {}

NotNullColumns == Fields

\* a statement that writes the row violates a NOT NULL constraint
IntegrityError(row) == \E k \in NotNullColumns : row[k] = None

\* select(AdvertisementORM).where(id == advertisement_id) ... scalar_one_or_none()
ScalarOneOrNone(st, id) == IF id \in DOMAIN st THEN Some(st[id]) ELSE None

\* Advertisement(id=..., title=..., ...): pydantic rejects None for a
\* non-Optional field.
ResponseValid(ad) == \A k \in Fields : ad[k] # None

\* orm_to_pydantic: the response body, or a server error when validation fails
orm_to_pydantic(ad) ==
    IF ResponseValid(ad)
    THEN [status |-> 200, body |-> <<ad>>]
    ELSE [status |-> 500, body |-> << >>]

Reply(st, status, body) == [store |-> st, status |-> status, body |-> body]

\* setattr(existing, k, v) for every item of update_data
SetAttrs(existing, update_data) ==
    [f \in DOMAIN existing |->
        IF f \in DOMAIN update_data THEN update_data[f] ELSE existing[f]]

(***************************************************************************)
(* session.add + session.commit of a loaded object whose attributes were   *)
(* set: the flush sends UPDATE ... SET <changed columns> WHERE id = ... ;   *)
(* no statement when no attribute changed; the flush raises when the row   *)
(* is gone (no row matched) or a NOT NULL constraint is violated, and the  *)
(* transaction is rolled back.                                             *)
(***************************************************************************)
CommitUpdate(st, loaded, existing) ==
    LET changed == {k \in Fields : existing[k] # loaded[k]}
        id == loaded.id
    IN  IF changed = {} THEN [ok |-> TRUE, store |-> st]
        ELSE IF id \notin DOMAIN st \/ IntegrityError(existing)
             THEN [ok |-> FALSE, store |-> st]
             ELSE [ok |-> TRUE,
                   store |-> [st EXCEPT ![id] =
                                [f \in DOMAIN existing |->
                                    IF f \in changed THEN existing[f] ELSE st[id][f]]]]

\* session.add + session.commit of a new object: INSERT
CommitInsert(st, ad_obj) ==
    IF ad_obj.id \in DOMAIN st \/ IntegrityError(ad_obj)
    THEN [ok |-> FALSE, store |-> st]
    ELSE [ok |-> TRUE, store |-> (ad_obj.id :> ad_obj) @@ st]

\* session.delete + session.commit: DELETE ... WHERE id = ... ; a row that is
\* already gone makes the flush warn, not raise
CommitDelete(st, id) == [i \in DOMAIN st \ {id} |-> st[i]]

\* session.refresh: reloads the row, and raises when it is gone
Refresh(st, id) == ScalarOneOrNone(st, id)

(***************************************************************************)
(* The handlers as functions of the table and the request, run alone.      *)
(***************************************************************************)
create_advertisement_StampsTwice(st, ad, new_id, t) ==
    IF ~AdvertisementCreate(ad) THEN Reply(st, 422, << >>)
    ELSE
        LET ad_obj == [id |-> new_id, title |-> ad.title,
                       description |-> ad.description, price |-> ad.price,
                       author |-> ad.author, created_at |-> t]
            c == CommitInsert(st, ad_obj)
        IN  IF ~c.ok THEN Reply(st, 500, << >>)
            ELSE Reply(c.store, 201, <<[ad_obj EXCEPT !.created_at = t + 1]>>)

create_advertisement(st, ad, new_id, t) ==
    IF ~AdvertisementCreate(ad) THEN Reply(st, 422, << >>)
    ELSE
        LET ad_obj == [id |-> new_id, title |-> ad.title,
                       description |-> ad.description, price |-> ad.price,
                       author |-> ad.author, created_at |-> t]
            c == CommitInsert(st, ad_obj)
        IN  IF ~c.ok THEN Reply(st, 500, << >>)
            ELSE LET refreshed == Refresh(c.store, new_id)
                     out == orm_to_pydantic(refreshed[1])
                 IN  Reply(c.store, IF out.status = 200 THEN 201 ELSE out.status,
                           out.body)

get_advertisement(st, id) ==
    LET ad_obj == ScalarOneOrNone(st, id)
    IN  IF ad_obj = None THEN Reply(st, 404, << >>)
        ELSE LET out == orm_to_pydantic(ad_obj[1])
             IN  Reply(st, out.status, out.body)

update_advertisement(st, id, ad_update) ==
    IF ~AdvertisementUpdate(ad_update) THEN Reply(st, 422, << >>)
    ELSE
        LET found == ScalarOneOrNone(st, id)
        IN  IF found = None THEN Reply(st, 404, << >>)
            ELSE
                LET existing == SetAttrs(found[1], ExcludeUnset(ad_update))
                    c == CommitUpdate(st, found[1], existing)
                IN  IF ~c.ok THEN Reply(st, 500, << >>)
                    ELSE LET refreshed == Refresh(c.store, id)
                             out == orm_to_pydantic(refreshed[1])
                         IN  Reply(c.store, out.status, out.body)

\* a delete that answers without committing
delete_advertisement_NoCommit(st, id) ==
    LET ad_obj == ScalarOneOrNone(st, id)
    IN  IF ad_obj = None THEN Reply(st, 404, << >>)
        ELSE Reply(st, 204, << >>)

delete_advertisement(st, id) ==
    LET ad_obj == ScalarOneOrNone(st, id)
    IN  IF ad_obj = None THEN Reply(st, 404, << >>)
        ELSE Reply(CommitDelete(st, id), 204, << >>)

(***************************************************************************)
(* Search (main.py 109-135).                                               *)
(***************************************************************************)
\* str.lower() on the characters the model uses
LowerChar(c) ==
    CASE c = "A" -> "a"
      [] c = "B" -> "b"
      [] c = "X" -> "x"
      [] OTHER -> c

Lower(s) == [i \in 1..Len(s) |-> LowerChar(s[i])]

\* needle in hay, for Python strings
In(needle, hay) ==
    \E i \in 0..(Len(hay) - Len(needle)) :
        \A j \in 1..Len(needle) : hay[i + j] = needle[j]

QueryTexts == {<< >>, <<"A">>, <<"a", "B">>}

Queries ==
    [q : {None} \cup {Some(t) : t \in QueryTexts},
     min_price : {None, Some(-1), Some(1)},
     max_price : {None, Some(0)},
     author : Opt({<<"x">>})]

\* Query(None, ge=0) on min_price and max_price
QueryValid(query) ==
    /\ query.min_price # None => query.min_price[1] >= 0
    /\ query.max_price # None => query.max_price[1] >= 0

\* select(AdvertisementORM) carries no ORDER BY: the rows come in an order
\* the database chooses.
Listings(st) ==
    LET n == Cardinality(DOMAIN st)
    IN  {[i \in 1..n |-> st[p[i]]] :
            p \in {f \in [1..n -> DOMAIN st] :
                      \A i, j \in 1..n : i # j => f[i] # f[j]}}

\* a text filter that looks at the title alone
FilterQ_TitleOnly(results, q) ==
    LET q_lower == Lower(q)
        Keep(a) == In(q_lower, Lower(a.title[1]))
    IN  SelectSeq(results, Keep)

FilterQ(results, q) ==
    LET q_lower == Lower(q)
        Keep(a) == In(q_lower, Lower(a.title[1])) \/ In(q_lower, Lower(a.description[1]))
    IN  SelectSeq(results, Keep)

FilterMin(results, min_price) ==
    LET Keep(a) == a.price[1] >= min_price
    IN  SelectSeq(results, Keep)

FilterMax(results, max_price) ==
    LET Keep(a) == a.price[1] <= max_price
    IN  SelectSeq(results, Keep)

\* a.author == author: an attribute that is None equals no text
FilterAuthor(results, author) ==
    LET Keep(a) == a.author = Some(author)
    IN  SelectSeq(results, Keep)

\* the truth value Python gives q in "if q:"
Truthy(q) == q # None /\ q[1] # << >>

\* a.title.lower() and a.description.lower() raise on an attribute that is
\* None; "or" reads the description only when the title does not match
TextRaises(results, q) ==
    \E i \in 1..Len(results) :
        \/ results[i].title = None
        \/ /\ ~In(Lower(q), Lower(results[i].title[1]))
           /\ results[i].description = None

\* a.price >= min_price and a.price <= max_price raise on a price that is None
PriceRaises(results) == \E i \in 1..Len(results) : results[i].price = None

search_advertisements(ads, query) ==
    IF ~QueryValid(query) THEN [status |-> 422, body |-> << >>]
    ELSE
        LET e1 == Truthy(query.q) /\ TextRaises(ads, query.q[1])
            r1 == IF Truthy(query.q) THEN FilterQ(ads, query.q[1]) ELSE ads
            e2 == query.min_price # None /\ PriceRaises(r1)
            r2 == IF query.min_price # None THEN FilterMin(r1, query.min_price[1]) ELSE r1
            e3 == query.max_price # None /\ PriceRaises(r2)
            r3 == IF query.max_price # None THEN FilterMax(r2, query.max_price[1]) ELSE r2
            r4 == IF query.author # None THEN FilterAuthor(r3, query.author[1]) ELSE r3
        IN  IF e1 \/ e2 \/ e3 THEN [status |-> 500, body |-> << >>]
            ELSE IF \A i \in 1..Len(r4) : ResponseValid(r4[i])
                 THEN [status |-> 200, body |-> r4]
                 ELSE [status |-> 500, body |-> << >>]

(***************************************************************************)
(* The in-memory variant: the same handlers over a mapping from id to      *)
(* advertisement.  put inserts or overwrites, get and delete signal        *)
(* NotFound on an absent id, list_all gives the current content; the       *)
(* mapping enforces nothing about the values it holds.                     *)
(***************************************************************************)
put(m, e) == [i \in DOMAIN m \cup {e.id} |-> IF i = e.id THEN e ELSE m[i]]

get(m, id) == IF id \in DOMAIN m THEN Some(m[id]) ELSE None

remove(m, id) == [i \in DOMAIN m \ {id} |-> m[i]]

\* the content in the order of insertion (ids are issued in increasing order)
list_all(m) ==
    LET n == Cardinality(DOMAIN m)
        Nth(i) == CHOOSE k \in DOMAIN m : Cardinality({j \in DOMAIN m : j < k}) = i - 1
    IN  [i \in 1..n |-> m[Nth(i)]]

mem_create(m, ad, new_id, t) ==
    IF ~AdvertisementCreate(ad) THEN Reply(m, 422, << >>)
    ELSE
        LET e == [id |-> new_id, title |-> ad.title, description |-> ad.description,
                  price |-> ad.price, author |-> ad.author, created_at |-> t]
            out == orm_to_pydantic(e)
        IN  Reply(put(m, e), IF out.status = 200 THEN 201 ELSE out.status, out.body)

mem_read(m, id) ==
    LET e == get(m, id)
    IN  IF e = None THEN Reply(m, 404, << >>)
        ELSE LET out == orm_to_pydantic(e[1])
             IN  Reply(m, out.status, out.body)

mem_update(m, id, ad_update) ==
    IF ~AdvertisementUpdate(ad_update) THEN Reply(m, 422, << >>)
    ELSE
        LET e == get(m, id)
        IN  IF e = None THEN Reply(m, 404, << >>)
            ELSE LET merged == [f \in DOMAIN e[1] |->
                                   IF f \in ad_update.fields_set
                                   THEN ad_update[f] ELSE e[1][f]]
                     out == orm_to_pydantic(merged)
                 IN  Reply(put(m, merged), out.status, out.body)

mem_delete(m, id) ==
    IF get(m, id) = None THEN Reply(m, 404, << >>)
    ELSE Reply(remove(m, id), 204, << >>)

mem_search(m, query) == search_advertisements(list_all(m), query)

(***************************************************************************)
(* State.                                                                  *)
(*   store    the advertisement table, id -> row                           *)
(*   issued   the identifiers uuid4() has returned                         *)
(*   now      the clock datetime.now reads                                 *)
(*   last     the operation and status of the latest response              *)
(*   deleted  the identifiers whose DELETE was answered 204                *)
(*   created  the body of the latest 201, until its advertisement is       *)
(*            updated or deleted                                           *)
(*   procs    the requests in flight, each with its own session            *)
(*   base     the table when the first request in flight began             *)
(*   twin     the in-memory variant fed the same requests: its mapping,    *)
(*            and whether its latest response equals the service's         *)
(***************************************************************************)
VARIABLES store, issued, now, last, deleted, created, procs, base, twin

vars == <<store, issued, now, last, deleted, created, procs, base, twin>>

NoBody == [title |-> None, description |-> None, price |-> None, author |-> None,
           fields_set |-> {}]

Procs == {"p1", "p2"}

Idle == [op |-> "idle", id |-> 0, body |-> NoBody, pc |-> "idle", obj |-> None,
         status |-> 0, out |-> << >>, late |-> FALSE]

Init ==
    /\ store = << >>
    /\ issued = {}
    /\ now = 0
    /\ last = [op |-> "none", status |-> 0]
    /\ deleted = {}
    /\ created = None
    /\ procs = [p \in Procs |-> Idle]
    /\ base = << >>
    /\ twin = [mem |-> << >>, alike |-> TRUE]

\* an identifier no earlier call returned, taken again once deleted
uuid4_Reuse == CHOOSE i \in 1..(MaxAds + 1) : i \notin DOMAIN store

\* uuid4(): an identifier no earlier call returned
uuid4 == Cardinality(issued) + 1

\* datetime.now(timezone.utc)
utcnow == now + 1

Forget(id) ==
    IF created # None /\ created[1].id = id THEN None ELSE created

(***************************************************************************)
(* One request at a time: each handler runs from its first line to its     *)
(* response.                                                               *)
(***************************************************************************)
Create(ad) ==
    \E r \in {create_advertisement(store, ad, uuid4, utcnow)} :
        /\ AdvertisementCreate(ad) => uuid4 <= MaxAds
        /\ store' = r.store
        /\ issued' = IF AdvertisementCreate(ad) THEN issued \cup {uuid4} ELSE issued
        /\ now' = IF AdvertisementCreate(ad) THEN utcnow ELSE now
        /\ last' = [op |-> "create", status |-> r.status]
        /\ created' = IF r.status = 201 THEN r.body ELSE created
        /\ UNCHANGED deleted

Read(id) ==
    \E r \in {get_advertisement(store, id)} :
        /\ last' = [op |-> "read", status |-> r.status]
        /\ UNCHANGED <<store, issued, now, deleted, created>>

Update(id, ad_update) ==
    \E r \in {update_advertisement(store, id, ad_update)} :
        /\ store' = r.store
        /\ last' = [op |-> "update", status |-> r.status]
        /\ created' = IF r.store # store THEN Forget(id) ELSE created
        /\ UNCHANGED <<issued, now, deleted>>

Delete(id) ==
    \E r \in {delete_advertisement(store, id)} :
        /\ store' = r.store
        /\ last' = [op |-> "delete", status |-> r.status]
        /\ deleted' = IF r.status = 204 THEN deleted \cup {id} ELSE deleted
        /\ created' = IF r.store # store THEN Forget(id) ELSE created
        /\ UNCHANGED <<issued, now>>

Search(ads, query) ==
    \E r \in {search_advertisements(ads, query)} :
        /\ last' = [op |-> "search", status |-> r.status]
        /\ UNCHANGED <<store, issued, now, deleted, created>>

\* nothing is in flight and no variant is fed
Alone == UNCHANGED <<procs, base, twin>>

Next ==
    \/ \E ad \in CreateBodies : Create(ad) /\ Alone
    \/ \E id \in Ids : Read(id) /\ Alone
    \/ \E id \in Ids, u \in UpdateBodies : Update(id, u) /\ Alone
    \/ \E id \in Ids : Delete(id) /\ Alone

Spec == Init /\ [][Next]_vars

\* The service answering searches between creations and deletions.
NextSearch ==
    \/ \E ad \in CreateBodies : Create(ad) /\ Alone
    \/ \E id \in Ids : Delete(id) /\ Alone
    \/ \E ads \in Listings(store), query \in Queries : Search(ads, query) /\ Alone

SpecSearch == Init /\ [][NextSearch]_vars

(***************************************************************************)
(* Requests in flight together.  Every request has its own session         *)
(* (get_session), and a handler gives way at each await: after the select, *)
(* after the commit, after the refresh.  Each of the two processes serves  *)
(* one PATCH or DELETE; advertisements are created before the first of     *)
(* them begins.                                                            *)
(***************************************************************************)
ConcurrentBodies ==
    {[NoBody EXCEPT !.price = Some(0), !.fields_set = {"price"}],
     [NoBody EXCEPT !.title = Some(<<"b">>), !.fields_set = {"title"}]}

AllIdle == \A p \in Procs : procs[p].pc = "idle"

AllDone == \A p \in Procs : procs[p].pc = "done"

Finish(p, status, out) ==
    [procs EXCEPT ![p].pc = "done", ![p].status = status, ![p].out = out,
                  ![p].late = status = 200 /\ procs[p].id \in deleted]

CreateBefore(ad) ==
    /\ AllIdle
    /\ Create(ad)
    /\ UNCHANGED <<procs, base, twin>>

Begin(p, op, id, body) ==
    /\ procs[p].pc = "idle"
    /\ store # << >>
    /\ procs' = [procs EXCEPT ![p] = [Idle EXCEPT !.op = op, !.id = id,
                                                   !.body = body, !.pc = "select"]]
    /\ base' = IF AllIdle THEN store ELSE base
    /\ UNCHANGED <<store, issued, now, last, deleted, created, twin>>

\* result = await session.execute(select(...)); scalar_one_or_none(); 404 if None
Select(p) ==
    /\ procs[p].pc = "select"
    /\ \E found \in {ScalarOneOrNone(store, procs[p].id)} :
          procs' = IF found = None
                   THEN Finish(p, 404, << >>)
                   ELSE [procs EXCEPT ![p].obj = found, ![p].pc = "commit"]
    /\ UNCHANGED <<store, issued, now, last, deleted, created, base, twin>>

\* update_advertisement: setattr ...; session.add(existing); await session.commit()
UpdateCommit(p) ==
    /\ procs[p].pc = "commit"
    /\ procs[p].op = "update"
    /\ \E existing \in {SetAttrs(procs[p].obj[1], ExcludeUnset(procs[p].body))} :
          \E c \in {CommitUpdate(store, procs[p].obj[1], existing)} :
              /\ store' = c.store
              /\ procs' = IF c.ok
                          THEN [procs EXCEPT ![p].obj = Some(existing),
                                             ![p].pc = "refresh"]
                          ELSE Finish(p, 500, << >>)
    /\ UNCHANGED <<issued, now, last, deleted, created, base, twin>>

\* update_advertisement: await session.refresh(existing); return orm_to_pydantic(existing)
UpdateRefresh(p) ==
    /\ procs[p].pc = "refresh"
    /\ \E refreshed \in {Refresh(store, procs[p].id)} :
          procs' = IF refreshed = None
                   THEN Finish(p, 500, << >>)
                   ELSE LET out == orm_to_pydantic(refreshed[1])
                        IN  Finish(p, out.status, out.body)
    /\ UNCHANGED <<store, issued, now, last, deleted, created, base, twin>>

\* delete_advertisement: await session.delete(ad_obj); await session.commit(); return
DeleteCommit(p) ==
    /\ procs[p].pc = "commit"
    /\ procs[p].op = "delete"
    /\ store' = CommitDelete(store, procs[p].id)
    /\ deleted' = deleted \cup {procs[p].id}
    /\ procs' = Finish(p, 204, << >>)
    /\ UNCHANGED <<issued, now, last, created, base, twin>>

NextConcurrent ==
    \/ \E ad \in {BaseBody} : CreateBefore(ad)
    \/ \E p \in Procs, id \in Ids, u \in ConcurrentBodies : Begin(p, "update", id, u)
    \/ \E p \in Procs, id \in Ids : Begin(p, "delete", id, NoBody)
    \/ \E p \in Procs : Select(p)
    \/ \E p \in Procs : UpdateCommit(p)
    \/ \E p \in Procs : UpdateRefresh(p)
    \/ \E p \in Procs : DeleteCommit(p)

SpecConcurrent == Init /\ [][NextConcurrent]_vars

(***************************************************************************)
(* The service and the in-memory variant fed the same requests, for as     *)
(* long as they have answered alike.                                       *)
(***************************************************************************)
Answer(r) == [status |-> r.status, body |-> r.body]

Alike == twin.alike

Both(rel, ref) == [mem |-> ref.store, alike |-> Answer(rel) = Answer(ref)]

\* the requests the pair is fed: POST bodies that differ from BaseBody in the
\* price or by a missing key, PATCH bodies with the price or the title as
\* their one key (null included), queries with at most one filter
TwinCreateBodies ==
    {b \in CreateBodies :
        \A k \in Fields \ {"price"} : b[k] \in {BaseBody[k], None} /\ k \in b.fields_set}

TwinUpdateBodies ==
    {u \in UpdateBodies :
        Cardinality(u.fields_set) = 1 /\ u.fields_set \subseteq {"price", "title"}}

TwinQueries ==
    {query \in Queries : Cardinality({k \in DOMAIN query : query[k] # None}) <= 1}

TwinCreate(ad) ==
    /\ Alike
    /\ Create(ad)
    /\ twin' = Both(create_advertisement(store, ad, uuid4, utcnow),
                    mem_create(twin.mem, ad, uuid4, utcnow))
    /\ UNCHANGED <<procs, base>>

TwinRead(id) ==
    /\ Alike
    /\ Read(id)
    /\ twin' = Both(get_advertisement(store, id), mem_read(twin.mem, id))
    /\ UNCHANGED <<procs, base>>

TwinUpdate(id, u) ==
    /\ Alike
    /\ Update(id, u)
    /\ twin' = Both(update_advertisement(store, id, u), mem_update(twin.mem, id, u))
    /\ UNCHANGED <<procs, base>>

TwinDelete(id) ==
    /\ Alike
    /\ Delete(id)
    /\ twin' = Both(delete_advertisement(store, id), mem_delete(twin.mem, id))
    /\ UNCHANGED <<procs, base>>

TwinSearch(ads, query) ==
    /\ Alike
    /\ Search(ads, query)
    /\ twin' = [mem |-> twin.mem,
                alike |-> search_advertisements(ads, query) = mem_search(twin.mem, query)]
    /\ UNCHANGED <<procs, base>>

NextTwin ==
    \/ \E ad \in TwinCreateBodies : TwinCreate(ad)
    \/ \E id \in Ids : TwinRead(id)
    \/ \E id \in Ids, u \in TwinUpdateBodies : TwinUpdate(id, u)
    \/ \E id \in Ids : TwinDelete(id)
    \/ \E ads \in Listings(store), query \in TwinQueries : TwinSearch(ads, query)

SpecTwin == Init /\ [][NextTwin]_vars

(***************************************************************************)
(* A claim about one request is stated for every request the action of     *)
(* that operation can take in the state: the handlers are functions of     *)
(* the table and the request, and the actions apply exactly them.          *)
(***************************************************************************)
Errors == {404, 422, 500}

\* C1: for every stored advertisement and every update payload that passes
\* validation, update sets exactly the supplied fields to the supplied
\* values and leaves every other field, id and created_at included, as
\* it was.
C1_UpdateSetsExactlySuppliedFields ==
    \A id \in DOMAIN store, u \in UpdateBodies :
        AdvertisementUpdate(u) =>
            \A r \in {update_advertisement(store, id, u)} :
                /\ id \in DOMAIN r.store
                /\ \A k \in Fields :
                      r.store[id][k] = IF k \in u.fields_set THEN u[k] ELSE store[id][k]
                /\ r.store[id].id = store[id].id
                /\ r.store[id].created_at = store[id].created_at

\* C2: every stored advertisement has a price, and it is >= 0.
C2_PriceNonNegative ==
    \A id \in DOMAIN store :
        store[id].price # None /\ store[id].price[1] >= 0

\* a PATCH that supplied null was answered while an advertisement is stored
C2_Witness ==
    /\ last = [op |-> "update", status |-> 500]
    /\ store # << >>

\* C3: a create, update or delete answered with an error status leaves the
\* table as it was, and one that changes the table is answered with its
\* success status.
C3_ErrorLeavesStore ==
    /\ \A ad \in CreateBodies :
          \A r \in {create_advertisement(store, ad, uuid4, utcnow)} :
              /\ r.status \in Errors => r.store = store
              /\ r.store # store => r.status = 201
    /\ \A id \in Ids, u \in UpdateBodies :
          \A r \in {update_advertisement(store, id, u)} :
              /\ r.status \in Errors => r.store = store
              /\ r.store # store => r.status = 200
    /\ \A id \in Ids :
          \A r \in {delete_advertisement(store, id)} :
              /\ r.status \in Errors => r.store = store
              /\ r.store # store => r.status = 204

\* an update of a missing advertisement was answered 404 beside stored ones
C3_Witness ==
    /\ last = [op |-> "update", status |-> 404]
    /\ store # << >>

\* C4: once DELETE of an id was answered 204, a read of that id and a
\* further delete of it are answered 404.
C4_DeletedStaysNotFound ==
    \A id \in deleted :
        /\ get_advertisement(store, id).status = 404
        /\ delete_advertisement(store, id).status = 404

\* every advertisement was created and deleted, and a further delete got 404
C4_Witness ==
    /\ issued = Ids
    /\ deleted = Ids
    /\ last = [op |-> "delete", status |-> 404]

\* C5: reading the advertisement create returned, before any update or
\* delete of it, gives the body create gave, field for field.
C5_CreateReadRoundTrip ==
    created # None =>
        LET r == get_advertisement(store, created[1].id)
        IN  r.status = 200 /\ r.body = created

\* the advertisement of the latest 201 was read, with another one stored
C5_Witness ==
    /\ created # None
    /\ last = [op |-> "read", status |-> 200]
    /\ Cardinality(DOMAIN store) >= 2

NegativePrice(b) == b.price # None /\ b.price[1] < 0

NegativeCreateBodies == {ad \in CreateBodies : NegativePrice(ad)}

NegativeUpdateBodies == {u \in UpdateBodies : NegativePrice(u)}

\* C6: a create with a negative price and an update that supplies a
\* negative price are answered 422 and leave the table as it was (a search
\* reads nothing but the table).
C6_NegativePriceRejected ==
    /\ \A ad \in NegativeCreateBodies :
          \A r \in {create_advertisement(store, ad, uuid4, utcnow)} :
              r.status = 422 /\ r.store = store
    /\ \A id \in Ids, u \in NegativeUpdateBodies :
          \A r \in {update_advertisement(store, id, u)} :
              r.status = 422 /\ r.store = store

\* an update was answered 422 while an advertisement is stored
C6_Witness ==
    /\ last = [op |-> "update", status |-> 422]
    /\ store # << >>

\* C8: stored advertisements have distinct ids, each one issued, and the id
\* a successful create returns was never issued before.
C8_IdsFresh ==
    /\ \A i, j \in DOMAIN store : i # j => store[i].id # store[j].id
    /\ \A i \in DOMAIN store : store[i].id \in issued
    /\ \A ad \in CreateBodies :
          \A r \in {create_advertisement(store, ad, uuid4, utcnow)} :
              r.status = 201 => r.body[1].id \notin issued

\* a create succeeded after an earlier advertisement had been deleted
C8_Witness ==
    /\ last = [op |-> "create", status |-> 201]
    /\ deleted # {}
    /\ Cardinality(issued) >= 2

\* Two characters that are the same letter, whatever their case.
SameLetter(c, d) ==
    \/ c = d
    \/ {c, d} \in {{"a", "A"}, {"b", "B"}, {"x", "X"}}

\* needle occurs in hay when case is ignored
OccursIgnoringCase(needle, hay) ==
    \E i \in 0..(Len(hay) - Len(needle)) :
        \A j \in 1..Len(needle) : SameLetter(hay[i + j], needle[j])

\* the advertisement satisfies every filter the query supplies
Satisfies(a, query) ==
    /\ query.q # None =>
          \/ OccursIgnoringCase(query.q[1], a.title[1])
          \/ OccursIgnoringCase(query.q[1], a.description[1])
    /\ query.min_price # None => a.price[1] >= query.min_price[1]
    /\ query.max_price # None => a.price[1] <= query.max_price[1]
    /\ query.author # None => a.author[1] = query.author[1]

NoFilter == [q |-> None, min_price |-> None, max_price |-> None, author |-> None]

\* the answer is exactly the listed advertisements that satisfy every
\* supplied filter, once each and in the listing's order
ExactlyTheMatches(r, ads, query) ==
    /\ r.status = 200
    /\ \E keep \in SUBSET (1..Len(ads)) :
          /\ keep = {i \in 1..Len(ads) : Satisfies(ads[i], query)}
          /\ Len(r.body) = Cardinality(keep)
          /\ \A i \in keep : r.body[Cardinality({j \in keep : j <= i})] = ads[i]

\* C7 as stated: for every listing of the table and every query, search
\* answers with exactly the listed advertisements that satisfy all supplied
\* filters, once each and in the listing's order; without filters that is
\* the whole listing.
C7_SearchAnyQuery ==
    \A ads \in Listings(store) :
        /\ \A query \in Queries :
              \A r \in {search_advertisements(ads, query)} :
                  ExactlyTheMatches(r, ads, query)
        /\ search_advertisements(ads, NoFilter).body = ads

\* C7: for every listing of the table, a query whose min_price and max_price
\* are absent or >= 0 is answered 200 with exactly the listed advertisements
\* that satisfy all supplied filters, once each and in the listing's order
\* (without filters, the whole listing); a query with a negative min_price
\* or max_price is answered 422 with no advertisement.
C7_SearchIsConjunctiveFilter ==
    \A ads \in Listings(store) :
        /\ \A query \in Queries :
              \A r \in {search_advertisements(ads, query)} :
                  IF QueryValid(query)
                  THEN ExactlyTheMatches(r, ads, query)
                  ELSE r.status = 422 /\ r.body = << >>
        /\ search_advertisements(ads, NoFilter).body = ads

\* a search was answered 200 over a table holding two advertisements that a
\* supplied filter tells apart
C7_Witness ==
    /\ last = [op |-> "search", status |-> 200]
    /\ \E i, j \in DOMAIN store, query \in Queries :
          /\ i # j
          /\ QueryValid(query)
          /\ Satisfies(store[i], query)
          /\ ~Satisfies(store[j], query)

\* The outcome of the two requests run one after the other, a then b, from
\* the table the first of them found.
Handle(st, rq) ==
    IF rq.op = "update" THEN update_advertisement(st, rq.id, rq.body)
    ELSE delete_advertisement(st, rq.id)

SerialOutcome(a, b) ==
    LET r1 == Handle(base, procs[a])
        r2 == Handle(r1.store, procs[b])
    IN  /\ procs[a].status = r1.status /\ procs[a].out = r1.body
        /\ procs[b].status = r2.status /\ procs[b].out = r2.body
        /\ store = r2.store

\* C9: when an update and a delete, or two updates, of the same id have run
\* interleaved, their responses and the table are those of one of the two
\* serial orders; no update is answered 200 for an advertisement whose
\* delete was already answered 204, and none brings it back.
C9_InterleavingIsSerial ==
    /\ (/\ AllDone
        /\ procs["p1"].id = procs["p2"].id
        /\ "update" \in {procs["p1"].op, procs["p2"].op})
          => SerialOutcome("p1", "p2") \/ SerialOutcome("p2", "p1")
    /\ \A p \in Procs : ~procs[p].late
    /\ \A id \in deleted : id \notin DOMAIN store

\* C10: fed the same requests from the empty store, the service and the
\* in-memory variant give the same status and the same body every time.
C10_SameResponsesAsInMemory ==
    twin.alike
====
